---- MODULE Spec2Model ----
(***************************************************************************)
(* Aid matching engine (src/logic/algorithm.py): the per-instance distance *)
(* cache, the supply scorer, the greedy matcher and the donation records,  *)
(* run on snapshots of NGOs and crisis areas that the caller may change    *)
(* between calls; and the heatmap generator (src/logic/heatmap.py): the    *)
(* satisfaction of a crisis area, the intensity at a point, the grid over  *)
(* a bounding box and the markers.                                         *)
(*                                                                         *)
(* Three specifications: Spec (the engine on a snapshot), ScorerSpec (the  *)
(* supply scorer on one NGO and one crisis area) and HeatmapSpec (the      *)
(* heatmap generator on a list of crisis areas).                           *)
(*                                                                         *)
(* Two more cover the service around the engine: WebsocketSpec (the list   *)
(* of open websockets of src/logic/api.py, its handlers and notify_clients, *)
(* interleaved at their awaits) and LimiterSpec (the RateLimiter of        *)
(* src/logic/validation.py under a clock that never goes back).            *)
(*                                                                         *)
(* Numbers.  Scores are Python floats; they are modelled as exact          *)
(* rationals <<numerator, denominator>> in lowest terms.  Locations lie on *)
(* one meridian, their latitude counted in kilometres of arc, so that the  *)
(* haversine distance of two locations is the absolute difference of the   *)
(* two latitudes.  credibility_score is kept in tenths.                    *)
(*                                                                         *)
(* Entities.  The ids of the NGOs of a snapshot differ from each other, and *)
(* so do the ids of its crisis areas.  A dict over the categories is       *)
(* iterated in the order of CategoryOrder.                                 *)
(***************************************************************************)
EXTENDS Integers, Sequences, FiniteSets, TLC

\* ------------------------------------------------------------------ bounds
MaxPos == 2      \* latitudes 0..MaxPos (km of arc); reach radii 1..MaxPos
MaxQty == 2      \* needed amounts and lot quantities 0..MaxQty
MaxEdits == 1    \* changes of the caller's snapshot in one behaviour
MaxUuids == 4    \* values drawn from uuid.uuid4() in one behaviour
MaxLat == 6      \* heatmap: latitudes 0..MaxLat (km of arc) of areas and box corners
MaxConnections == 3  \* websockets opened in one behaviour
MaxRequests == 2     \* rate limiter: max_requests 1..MaxRequests
MaxWindow == 2       \* rate limiter: window_seconds 1..MaxWindow
MaxClock == 4        \* rate limiter: clock values 0..MaxClock
MaxCalls == 4        \* rate limiter: is_allowed calls in one behaviour

\* ------------------------------------------------------- program constants
URGENCY_WEIGHT == <<5, 10>>
DISTANCE_WEIGHT == <<3, 10>>
REACHABILITY_WEIGHT == <<2, 10>>

\* ---------------------------------------------------------------- helpers
Abs(x) == IF x < 0 THEN -x ELSE x

MinInt(a, b) == IF a <= b THEN a ELSE b

RECURSIVE Gcd(_, _)
Gcd(a, b) == IF b = 0 THEN a ELSE Gcd(b, a % b)

\* the rational n/d (d > 0) in lowest terms
Rat(n, d) == LET g == Gcd(Abs(n), d) IN <<n \div g, d \div g>>

RAdd(a, b) == Rat(a[1] * b[2] + b[1] * a[2], a[2] * b[2])

RSub(a, b) == Rat(a[1] * b[2] - b[1] * a[2], a[2] * b[2])

RMul(a, b) == Rat(a[1] * b[1], a[2] * b[2])

RLess(a, b) == a[1] * b[2] < b[1] * a[2]

RLeq(a, b) == a[1] * b[2] <= b[1] * a[2]

RMin(a, b) == IF RLeq(a, b) THEN a ELSE b

RZero == <<0, 1>>

ROne == <<1, 1>>

RECURSIVE SumSeq(_)
SumSeq(s) == IF s = <<>> THEN 0 ELSE Head(s) + SumSeq(Tail(s))

\* dict.get(key, default)
Get(d, key, default) == IF key \in DOMAIN d THEN d[key] ELSE default

\* list.remove(x): drops the first element equal to x
RECURSIVE RemoveFirst(_, _)
RemoveFirst(s, x) ==
    IF s = <<>> THEN <<>>
    ELSE IF Head(s) = x THEN Tail(s)
    ELSE <<Head(s)>> \o RemoveFirst(Tail(s), x)

\* ------------------------------------------------------------ domain types
Categories == {"food", "water"}

\* the order in which a dict over the categories is iterated
CategoryOrder == <<"food", "water">>

\* ReachabilityLevel.  A level is [ordinal, numeric]: ordinal is the place of
\* the member (0 = easy .. 3 = extreme); numeric tells whether its .value is
\* that number, as line 87 of algorithm.py needs, or the member's string
\* ("easy", ...), as the four members declared in models.py have it.
ReachabilityOrdinals == {0, 1, 2, 3}

ReachabilityLevel == [ordinal : ReachabilityOrdinals, numeric : BOOLEAN]

\* ----------------------------------------------------- calculate_distance
\* haversine distance of two locations on one meridian
Haversine(loc1, loc2) == Abs(loc2 - loc1)

\* faulty variant: the cache keeps another value than the one returned
CacheStoreOff(cache, key, distance) ==
    [k \in DOMAIN cache \cup {key} |-> IF k = key THEN distance + 1 ELSE cache[k]]

\* self.distance_cache[cache_key] = distance
CacheStore(cache, key, distance) ==
    [k \in DOMAIN cache \cup {key} |-> IF k = key THEN distance ELSE cache[k]]

\* returns the distance and the cache after the call
calculate_distance(cache, ngo, crisis_area) ==
    LET cache_key == <<ngo.id, crisis_area.id>> IN
    IF cache_key \in DOMAIN cache
    THEN [distance |-> cache[cache_key], cache |-> cache]
    ELSE LET distance == Haversine(ngo.location, crisis_area.location) IN
         [distance |-> distance, cache |-> CacheStore(cache, cache_key, distance)]

\* ------------------------------------------ calculate_supply_match_score
\* sum(supply.quantity for supply in ngo.inventory.get(category, []))
available_amount(ngo, category) == SumSeq(Get(ngo.inventory, category, <<>>))

fulfillment_ratio(available, needed) == RMin(ROne, Rat(available, needed))

\* faulty variant: no bonus for a specialization
no_specialization_bonus(ngo, category) == ROne

specialization_bonus(ngo, category) ==
    IF category \in ngo.specializations THEN <<12, 10>> ELSE ROne

category_score(ngo, crisis_area, category) ==
    LET needed_amount == crisis_area.current_needs[category] IN
    IF needed_amount = 0 THEN RZero
    ELSE RMul(RMul(fulfillment_ratio(available_amount(ngo, category), needed_amount),
                   Rat(Get(crisis_area.urgency_levels, category, 1), 5)),
              specialization_bonus(ngo, category))

calculate_supply_match_score(ngo, crisis_area) ==
    [category \in DOMAIN crisis_area.current_needs |->
        category_score(ngo, crisis_area, category)]

\* ------------------------------------------------- find_optimal_matches
\* max(x.urgency_levels.values(), default=0)
max_urgency(crisis_area) ==
    LET levels == {crisis_area.urgency_levels[c] : c \in DOMAIN crisis_area.urgency_levels} IN
    IF levels = {} THEN 0 ELSE CHOOSE m \in levels : \A l \in levels : l <= m

\* faulty variant: an unstable sort: an element goes in front of its ties
RECURSIVE InsertAreaBeforeTies(_, _)
InsertAreaBeforeTies(sorted, x) ==
    IF sorted = <<>> THEN <<x>>
    ELSE IF max_urgency(Head(sorted)) > max_urgency(x)
         THEN <<Head(sorted)>> \o InsertAreaBeforeTies(Tail(sorted), x)
         ELSE <<x>> \o sorted

\* where a stable descending sort puts an element of key k: behind every
\* element whose key is at least k
RECURSIVE InsertArea(_, _)
InsertArea(sorted, x) ==
    IF sorted = <<>> THEN <<x>>
    ELSE IF max_urgency(Head(sorted)) >= max_urgency(x)
         THEN <<Head(sorted)>> \o InsertArea(Tail(sorted), x)
         ELSE <<x>> \o sorted

\* sorted(crisis_areas, key=..., reverse=True)
RECURSIVE sort_crisis_areas(_)
sort_crisis_areas(areas) ==
    IF areas = <<>> THEN <<>>
    ELSE InsertArea(sort_crisis_areas(SubSeq(areas, 1, Len(areas) - 1)), areas[Len(areas)])

RECURSIVE InsertMatch(_, _)
InsertMatch(sorted, x) ==
    IF sorted = <<>> THEN <<x>>
    ELSE IF RLeq(x.overall_score, Head(sorted).overall_score)
         THEN <<Head(sorted)>> \o InsertMatch(Tail(sorted), x)
         ELSE <<x>> \o sorted

\* area_matches.sort(key=lambda x: x[1], reverse=True)
RECURSIVE sort_area_matches(_)
sort_area_matches(ms) ==
    IF ms = <<>> THEN <<>>
    ELSE InsertMatch(sort_area_matches(SubSeq(ms, 1, Len(ms) - 1)), ms[Len(ms)])

\* sum(supply_scores.values())
RECURSIVE SumScores(_, _)
SumScores(supply_scores, cats) ==
    IF cats = {} THEN RZero
    ELSE LET c == CHOOSE c \in cats : TRUE IN
         RAdd(supply_scores[c], SumScores(supply_scores, cats \ {c}))

distance_factor(distance, ngo) == RSub(ROne, Rat(distance, ngo.reach_radius_km))

reachability_factor(crisis_area) == RSub(ROne, Rat(crisis_area.reachability.ordinal, 4))

overall_score(ngo, crisis_area, distance, supply_scores) ==
    RMul(RAdd(RAdd(RMul(SumScores(supply_scores, DOMAIN supply_scores), URGENCY_WEIGHT),
                   RMul(distance_factor(distance, ngo), DISTANCE_WEIGHT)),
              RMul(reachability_factor(crisis_area), REACHABILITY_WEIGHT)),
         Rat(ngo.credibility_score, 10))

\* the filter of the candidate loop: distance > ngo.reach_radius_km
beyond_reach(distance, ngo) == distance > ngo.reach_radius_km

\* the candidate loop over available_ngos for one crisis area.
\* acc = [area_matches, cache, raised, probes]; probes lists what
\* calculate_distance returned for each NGO looked at.
RECURSIVE scan_ngos(_, _, _)
scan_ngos(todo, crisis_area, acc) ==
    IF todo = <<>> \/ acc.raised THEN acc
    ELSE LET ngo == Head(todo)
             r == calculate_distance(acc.cache, ngo, crisis_area)
             distance == r.distance
             acc1 == [acc EXCEPT !.cache = r.cache,
                                 !.probes = Append(@, [ngo_id |-> ngo.id, distance |-> distance])]
         IN  IF beyond_reach(distance, ngo)
             THEN scan_ngos(Tail(todo), crisis_area, acc1)
             ELSE IF ~crisis_area.reachability.numeric
             THEN [acc1 EXCEPT !.raised = TRUE]   \* str / int: TypeError
             ELSE LET supply_scores == calculate_supply_match_score(ngo, crisis_area)
                      score == overall_score(ngo, crisis_area, distance, supply_scores)
                      cand == [ngo |-> ngo, overall_score |-> score,
                               supply_scores |-> supply_scores]
                  IN  scan_ngos(Tail(todo), crisis_area,
                                IF RLess(RZero, score)
                                THEN [acc1 EXCEPT !.area_matches = Append(@, cand)]
                                ELSE acc1)

\* faulty variant: the whole stock is sent, whatever is needed
quantity_of_stock(ngo, crisis_area, category) == available_amount(ngo, category)

\* faulty variant: the whole need is sent, whatever is in stock
quantity_of_need(ngo, crisis_area, category) == crisis_area.current_needs[category]

\* min(needed, sum(s.quantity for s in available))
optimal_quantity(ngo, crisis_area, category) ==
    MinInt(crisis_area.current_needs[category], available_amount(ngo, category))

\* faulty variant: an entry for every category scored, whatever the score
\* and the quantity
RECURSIVE supplies_unfiltered(_, _, _, _)
supplies_unfiltered(ngo, crisis_area, supply_scores, cats) ==
    IF cats = <<>> THEN <<>>
    ELSE LET category == Head(cats)
             rest == supplies_unfiltered(ngo, crisis_area, supply_scores, Tail(cats))
         IN  IF category \in DOMAIN supply_scores
             THEN <<[category |-> category,
                     quantity |-> optimal_quantity(ngo, crisis_area, category),
                     unit |-> "units"]>> \o rest
             ELSE rest

\* the loop over supply_scores.items() that fills supplies_to_send
RECURSIVE supplies_to_send(_, _, _, _)
supplies_to_send(ngo, crisis_area, supply_scores, cats) ==
    IF cats = <<>> THEN <<>>
    ELSE LET category == Head(cats)
             rest == supplies_to_send(ngo, crisis_area, supply_scores, Tail(cats))
         IN  IF category \in DOMAIN supply_scores
                /\ RLess(RZero, supply_scores[category])
                /\ optimal_quantity(ngo, crisis_area, category) > 0
             THEN <<[category |-> category,
                     quantity |-> optimal_quantity(ngo, crisis_area, category),
                     unit |-> "units"]>> \o rest
             ELSE rest

\* faulty variant: the matched NGO stays in the pool
keep_matched(available_ngos, ngo) == available_ngos

\* available_ngos.remove(ngo)
remove_matched(available_ngos, ngo) == RemoveFirst(available_ngos, ngo)

\* lines 98-126, after the candidate loop of one crisis area: the best
\* candidate, its supplies, the match and the removal from the pool.
\* ranked = the sorted area_matches; supplies = supplies_to_send of ranked[1]
emit_match(st, crisis_area, scan, ranked, supplies) ==
    LET emitted == ~scan.raised /\ ranked # <<>> /\ supplies # <<>>
        entry == [area_id |-> crisis_area.id,
                  probes |-> scan.probes,
                  candidates |-> [i \in 1..Len(ranked) |->
                                    [ngo_id |-> ranked[i].ngo.id,
                                     overall_score |-> ranked[i].overall_score]],
                  emitted |-> emitted]
    IN  [available_ngos |-> IF emitted THEN remove_matched(st.available_ngos, ranked[1].ngo)
                            ELSE st.available_ngos,
         matches |-> IF emitted
                     THEN Append(st.matches, [ngo |-> ranked[1].ngo,
                                              crisis_area |-> crisis_area,
                                              supplies |-> supplies])
                     ELSE st.matches,
         cache |-> scan.cache,
         raised |-> scan.raised,
         log |-> Append(st.log, entry)]

\* faulty variant: when the best candidate has nothing to send the next
\* candidates are tried, in the order of their scores
select_first_sender(st, crisis_area, scan, ranked) ==
    LET senders == {i \in 1..Len(ranked) :
                       supplies_to_send(ranked[i].ngo, crisis_area,
                                        ranked[i].supply_scores, CategoryOrder) # <<>>}
    IN  IF senders = {} THEN emit_match(st, crisis_area, scan, ranked, <<>>)
        ELSE LET i == CHOOSE m \in senders : \A o \in senders : m <= o
             IN  emit_match(st, crisis_area, scan,
                            <<ranked[i]>> \o SubSeq(ranked, 1, i - 1)
                                          \o SubSeq(ranked, i + 1, Len(ranked)),
                            supplies_to_send(ranked[i].ngo, crisis_area,
                                             ranked[i].supply_scores, CategoryOrder))

select_best(st, crisis_area, scan, ranked) ==
    emit_match(st, crisis_area, scan, ranked,
               IF ranked = <<>> THEN <<>>
               ELSE supplies_to_send(ranked[1].ngo, crisis_area,
                                     ranked[1].supply_scores, CategoryOrder))

rank_candidates(st, crisis_area, scan) ==
    select_best(st, crisis_area, scan,
                IF scan.raised THEN <<>> ELSE sort_area_matches(scan.area_matches))

\* one iteration of the loop over the sorted crisis areas.
\* st = [available_ngos, matches, cache, raised, log]
process_area(st, crisis_area) ==
    rank_candidates(st, crisis_area,
                    scan_ngos(st.available_ngos, crisis_area,
                              [area_matches |-> <<>>, cache |-> st.cache,
                               raised |-> FALSE, probes |-> <<>>]))

RECURSIVE match_loop(_, _)
match_loop(st, areas) ==
    IF areas = <<>> \/ st.raised THEN st
    ELSE match_loop(process_area(st, Head(areas)), Tail(areas))

\* faulty variant: busy NGOs are not filtered out
busy_or_not(ngo) == TRUE

\* available_ngos = [ngo for ngo in ngos if not ngo.is_busy]
not_busy(ngo) == ~ngo.is_busy

available(ngo_list) == SelectSeq(ngo_list, not_busy)

\* faulty variant: the pool is the caller's list itself, filtered in place
ngos_aliased(ngo_list, pool) == pool

\* The caller's list of NGOs after the call.  available_ngos is a new list
\* (the comprehension of line 64) and remove (line 126) acts on that list;
\* nothing assigns to a field of an NGO.
ngos_left(ngo_list, pool) == ngo_list

\* faulty variant: crisis_areas.sort(...), the caller's list sorted in place
areas_sorted_in_place(area_list, sorted_areas) == sorted_areas

\* The caller's list of crisis areas after the call.  sorted() (line 67)
\* returns a new list; nothing assigns to a field of a crisis area.
areas_left(area_list, sorted_areas) == area_list

\* the whole call: what it returns (or that it raised), the cache it leaves
\* and the caller's two lists as they are after the call
find_optimal_matches(cache, ngo_list, area_list) ==
    LET end == match_loop([available_ngos |-> available(ngo_list), matches |-> <<>>,
                           cache |-> cache, raised |-> FALSE, log |-> <<>>],
                          sort_crisis_areas(area_list))
    IN  [status |-> IF end.raised THEN "raised" ELSE "returned",
         matches |-> IF end.raised THEN <<>> ELSE end.matches,
         log |-> end.log,
         cache |-> end.cache,
         ngos |-> ngos_left(ngo_list, end.available_ngos),
         crisis_areas |-> areas_left(area_list, sort_crisis_areas(area_list))]

\* ------------------------------------------------ create_donation_records
\* str(uuid.uuid4()): the value of a draw of the generator, which has handed
\* out drawn values so far and hands out no value twice
uuid4(drawn) == drawn + 1

\* Donation(id=..., ngo_id=..., crisis_area_id=..., supplies=..., timestamp=
\* datetime.now(), status="pending"); the reading of the clock is kept as "now"
Donation(id, match) ==
    [id |-> id,
     ngo_id |-> match.ngo.id,
     crisis_area_id |-> match.crisis_area.id,
     supplies |-> match.supplies,
     timestamp |-> "now",
     status |-> "pending"]

\* faulty variant: one id is drawn before the loop and given to every record
create_donation_records_one_id(matches, drawn) ==
    [i \in 1..Len(matches) |-> Donation(uuid4(drawn), matches[i])]

\* one record per match, in the order of the matches, a new draw for each
create_donation_records(matches, drawn) ==
    [i \in 1..Len(matches) |-> Donation(uuid4(drawn + i - 1), matches[i])]

\* ------------------------------------------------------ HeatmapGenerator
\* settings.HEATMAP_RADIUS_KM, HEATMAP_RESOLUTION_KM, HEATMAP_MIN_GRID_STEPS
HEATMAP_RADIUS_KM == 2

HEATMAP_RESOLUTION_KM == <<1, 2>>

HEATMAP_MIN_GRID_STEPS == 10

\* the "111 km per degree" of the grid dimensions
KM_PER_DEGREE == 111

\* Latitudes are counted in km of arc; a km of arc is 180 / (6371 pi) =
\* 0.0089932... degrees.  With the value below the number of grid steps is
\* the one of the code for every box of a whole number of km up to 100.
DegreesPerKm == <<8993, 1000000>>

MaxInt(a, b) == IF a >= b THEN a ELSE b

RDiv(a, b) == IF b[1] > 0 THEN Rat(a[1] * b[2], a[2] * b[1])
              ELSE Rat(-(a[1] * b[2]), a[2] * (-b[1]))

RAbs(a) == <<Abs(a[1]), a[2]>>

RMax(a, b) == IF RLeq(b, a) THEN a ELSE b

\* int(x): x without its fraction
Trunc(a) == IF a[1] >= 0 THEN a[1] \div a[2] ELSE -((-a[1]) \div a[2])

\* the optional category argument, when it is left out
None == "none"

\* sum(d.values()) of a dict over the categories
RECURSIVE SumValues(_, _)
SumValues(d, cats) ==
    IF cats = <<>> THEN 0
    ELSE Get(d, Head(cats), 0) + SumValues(d, Tail(cats))

\* _calculate_satisfaction_level with a category (lines 21-31)
category_satisfaction(crisis_area, category) ==
    LET needed == Get(crisis_area.current_needs, category, 0) IN
    IF needed = 0 THEN ROne
    ELSE LET in_stock == SumSeq(Get(crisis_area.current_inventory, category, <<>>))
         IN  RMin(ROne, Rat(in_stock, needed))

\* the loop "for cat in SupplyCategory" of lines 38-43
RECURSIVE weighted_satisfaction(_, _, _)
weighted_satisfaction(crisis_area, total_urgency, cats) ==
    IF cats = <<>> THEN RZero
    ELSE LET cat == cats[Len(cats)]
             before == weighted_satisfaction(crisis_area, total_urgency,
                                             SubSeq(cats, 1, Len(cats) - 1))
         IN  IF cat \in DOMAIN crisis_area.current_needs
             THEN LET urgency == Get(crisis_area.urgency_levels, cat, 1)
                      satisfaction == category_satisfaction(crisis_area, cat)
                  IN  RAdd(before, RMul(satisfaction, Rat(urgency, total_urgency)))
             ELSE before

\* _calculate_satisfaction_level without a category (lines 34-45)
overall_satisfaction(crisis_area) ==
    LET total_urgency == SumValues(crisis_area.urgency_levels, CategoryOrder) IN
    IF total_urgency = 0 THEN ROne
    ELSE weighted_satisfaction(crisis_area, total_urgency, CategoryOrder)

calculate_satisfaction_level(crisis_area, category) ==
    IF category # None THEN category_satisfaction(crisis_area, category)
    ELSE overall_satisfaction(crisis_area)

\* _haversine_distance of a point and a location of the same meridian;
\* point is a rational number of km, location a whole one
haversine_distance(point, location) == RAbs(RSub(point, Rat(location, 1)))

\* weight = 1 - (distance / self.radius_km); weight = weight ** 2
distance_weight(distance) ==
    LET weight == RSub(ROne, RDiv(distance, Rat(HEATMAP_RADIUS_KM, 1))) IN
    RMul(weight, weight)

\* max(area.urgency_levels.values()) if area.urgency_levels else 1
area_urgency(area) == IF DOMAIN area.urgency_levels = {} THEN 1 ELSE max_urgency(area)

\* faulty variant: the contributions of the areas add up
intensity_sum(max_intensity, intensity) == RAdd(max_intensity, intensity)

\* max_intensity = max(max_intensity, intensity)
intensity_max(max_intensity, intensity) == RMax(max_intensity, intensity)

\* the loop of _calculate_intensity over the crisis areas;
\* acc = [max_intensity, weighted_satisfaction, total_weight]
RECURSIVE intensity_loop(_, _, _, _)
intensity_loop(point, areas, category, acc) ==
    IF areas = <<>> THEN acc
    ELSE LET area == Head(areas)
             distance == haversine_distance(point, area.location)
         IN  IF RLess(Rat(HEATMAP_RADIUS_KM, 1), distance)
             THEN intensity_loop(point, Tail(areas), category, acc)
             ELSE LET weight == distance_weight(distance)
                      satisfaction == calculate_satisfaction_level(area, category)
                      intensity == RMul(Rat(area_urgency(area), 1), weight)
                  IN  intensity_loop(point, Tail(areas), category,
                        [max_intensity |-> intensity_max(acc.max_intensity, intensity),
                         weighted_satisfaction |->
                             RAdd(acc.weighted_satisfaction, RMul(satisfaction, weight)),
                         total_weight |-> RAdd(acc.total_weight, weight)])

\* faulty variant: no area within the radius reads as not satisfied at all
empty_neighbourhood_unsatisfied == [intensity |-> RZero, satisfaction |-> RZero]

\* return 0.0, 1.0
empty_neighbourhood == [intensity |-> RZero, satisfaction |-> ROne]

\* _calculate_intensity: the intensity and the satisfaction at a point
calculate_intensity(point, areas, category) ==
    LET end == intensity_loop(point, areas, category,
                              [max_intensity |-> RZero, weighted_satisfaction |-> RZero,
                               total_weight |-> RZero])
    IN  IF end.total_weight = RZero THEN empty_neighbourhood
        ELSE [intensity |-> end.max_intensity,
              satisfaction |-> RDiv(end.weighted_satisfaction, end.total_weight)]

\* faulty variant: the number of steps is not raised to min_grid_steps
lat_steps_unfloored(sw, ne) ==
    Trunc(RMul(RDiv(RMul(Rat(ne - sw, 1), DegreesPerKm), HEATMAP_RESOLUTION_KM),
               Rat(KM_PER_DEGREE, 1)))

\* lat_steps: int((ne.latitude - sw.latitude) / self.resolution_km * 111),
\* not less than min_grid_steps
lat_steps(sw, ne) ==
    MaxInt(Trunc(RMul(RDiv(RMul(Rat(ne - sw, 1), DegreesPerKm), HEATMAP_RESOLUTION_KM),
                      Rat(KM_PER_DEGREE, 1))),
           HEATMAP_MIN_GRID_STEPS)

\* lon_steps of a box on one meridian: ne.longitude - sw.longitude is 0
lon_steps == MaxInt(Trunc(RZero), HEATMAP_MIN_GRID_STEPS)

\* np.linspace(start, stop, num) for num > 1
linspace(start, stop, num) ==
    [i \in 1..num |-> RAdd(Rat(start, 1), Rat((i - 1) * (stop - start), num - 1))]

\* the outer loop of generate_heatmap_data: what _calculate_intensity returns
\* at each latitude of the grid (the longitudes of a box on one meridian are
\* all the same, so the value is the same along a row)
lat_rows(areas, sw, ne, category) ==
    LET lat_vals == linspace(sw, ne, lat_steps(sw, ne)) IN
    [i \in 1..Len(lat_vals) |->
        LET v == calculate_intensity(lat_vals[i], areas, category) IN
        [lat |-> lat_vals[i], lng |-> 0,
         intensity |-> v.intensity, satisfaction |-> v.satisfaction]]

\* the inner loop: lon_steps grid points at each latitude
expand_rows(rows) ==
    [k \in 1..(Len(rows) * lon_steps) |-> rows[((k - 1) \div lon_steps) + 1]]

\* the value of every grid point, in the order of the two loops
grid_values(areas, sw, ne, category) == expand_rows(lat_rows(areas, sw, ne, category))

\* if intensity > 0: points.append(...)
emitted(value) == RLess(RZero, value.intensity)

\* generate_heatmap_data: the points it returns, the value of every grid
\* point it looked at, and the grid values of the two axes
generate_heatmap_data(areas, sw, ne, category) ==
    LET grid == grid_values(areas, sw, ne, category) IN
    [grid |-> grid, points |-> SelectSeq(grid, emitted),
     lat_vals |-> linspace(sw, ne, lat_steps(sw, ne)),
     lon_vals |-> linspace(0, 0, lon_steps)]

\* the marker of one crisis area (of the attributes copied as they are, the
\* needs and the reachability are kept)
crisis_marker(area) ==
    [id |-> area.id,
     position |-> [lat |-> area.location, lng |-> 0],
     satisfaction |-> calculate_satisfaction_level(area, None),
     urgency |-> area_urgency(area),
     reachability |-> area.reachability,
     needs |-> area.current_needs]

\* faulty variant: the markers come out last area first
crisis_markers_reversed(areas) ==
    [i \in 1..Len(areas) |-> crisis_marker(areas[Len(areas) + 1 - i])]

\* generate_crisis_markers: one marker per area, in the order of the areas
generate_crisis_markers(areas) ==
    [i \in 1..Len(areas) |-> crisis_marker(areas[i])]

\* ------------------------------------------------------------ input values
Positions == 0..MaxPos

Radii == 1..MaxPos

Quantities == 0..MaxQty

EmptyDict == [c \in {} |-> 0]

Dict1(c, v) == [k \in {c} |-> v]

Dict2(v1, v2) == [k \in Categories |-> IF k = "food" THEN v1 ELSE v2]

\* NGO.inventory: category -> list of lots (the quantity of each Supply)
Inventories ==
    {EmptyDict, Dict1("food", <<1, 1>>)}
    \cup {Dict1("food", <<q>>) : q \in 1..MaxQty}
    \cup {Dict2(<<1>>, <<q>>) : q \in 1..MaxQty}

\* NGO.credibility_score, in tenths
Credibilities == {0, 5, 10}

\* NGO.specializations
SpecializationSets == {{}, {"food"}}

\* CrisisArea.current_needs: category -> amount needed
NeedsChoices ==
    {EmptyDict}
    \cup {Dict1("food", q) : q \in Quantities}
    \cup {Dict2(q, 1) : q \in 1..MaxQty}

\* CrisisArea.urgency_levels: category -> 1..5
UrgencyChoices ==
    {EmptyDict, Dict1("food", 1), Dict1("food", 2), Dict1("food", 5),
     Dict1("water", 2), Dict2(2, 5)}

\* CrisisArea.current_inventory: category -> list of lots
AreaInventories == Inventories

\* heatmap: where a crisis area lies, and the corners of a bounding box
HeatPositions == 0..MaxLat

BoxCorners == {0, MaxLat \div 2, MaxLat}

\* the category argument of generate_heatmap_data
CategoryArguments == Categories \cup {None}

NgoIds == <<"n1", "n2">>

AreaIds == <<"a1", "a2">>

\* ------------------------------------------------ the websocket connections
\* a WebSocket object is told from the others by a number
Connections == 1..MaxConnections

NoConnection == 0

\* list.remove(x) on active_connections: ValueError when x is not in the list
remove(list, x) ==
    IF \E i \in 1..Len(list) : list[i] = x
    THEN [raised |-> FALSE, list |-> RemoveFirst(list, x)]
    ELSE [raised |-> TRUE, list |-> list]

\* the state of one notify_clients call: the list iterator's index, the
\* connection whose send_json is awaited, and what has been sent and has
\* failed so far
NoNotify ==
    [status |-> "none", index |-> 0, connection |-> NoConnection,
     at_start |-> <<>>, sent |-> {}, failed |-> {}]

\* "for connection in active_connections": next() of the list iterator gives
\* the element at its index of the list as it is now, then send_json starts
next_connection(n, list) ==
    IF n.index < Len(list)
    THEN [n EXCEPT !.status = "sending", !.connection = list[n.index + 1],
                   !.index = n.index + 1]
    ELSE [n EXCEPT !.status = "done", !.connection = NoConnection]

\* notify_clients up to its first await
notify_clients(list) ==
    next_connection([NoNotify EXCEPT !.at_start = list], list)

\* notify_clients from the end of an awaited send_json (ok: it did not raise)
\* up to the next await or the end of the loop
send_json_done(n, list, ok) ==
    IF ok
    THEN [notify |-> next_connection([n EXCEPT !.sent = @ \cup {n.connection}], list),
          list |-> list]
    ELSE LET r == remove(list, n.connection)
             n1 == [n EXCEPT !.failed = @ \cup {n.connection}]
         IN  [notify |-> IF r.raised
                         THEN [n1 EXCEPT !.status = "raised", !.connection = NoConnection]
                         ELSE next_connection(n1, r.list),
              list |-> r.list]

\* -------------------------------------------------------- the rate limiter
Clients == {"alice", "bob"}

\* self.requests = {}
NoRequests == [client \in {} |-> <<>>]

RateLimiter(max_requests, window_seconds) ==
    [max_requests |-> max_requests, window_seconds |-> window_seconds,
     requests |-> NoRequests]

\* t > now - self.window_seconds
in_window(t, now, window_seconds) == t > now - window_seconds

\* faulty variant: one request more than max_requests gets through
over_limit_by_one(times, max_requests) == Len(times) > max_requests

\* len(self.requests[client_id]) >= self.max_requests
over_limit(times, max_requests) == Len(times) >= max_requests

\* RateLimiter.is_allowed(client_id) at clock value now; times[-1] of an
\* empty list raises IndexError
is_allowed(self, client_id, now) ==
    IF \E client \in DOMAIN self.requests : self.requests[client] = <<>>
    THEN [raised |-> TRUE, allowed |-> FALSE, requests |-> self.requests]
    ELSE
    LET kept == {client \in DOMAIN self.requests :
                    in_window(self.requests[client][Len(self.requests[client])],
                              now, self.window_seconds)}
        times == IF client_id \in kept THEN self.requests[client_id] ELSE <<>>
        recent == SelectSeq(times, LAMBDA t : in_window(t, now, self.window_seconds))
        denied == over_limit(recent, self.max_requests)
    IN  [raised |-> FALSE,
         allowed |-> ~denied,
         requests |-> [client \in kept \cup {client_id} |->
                          IF client # client_id THEN self.requests[client]
                          ELSE IF denied THEN recent
                          ELSE Append(recent, now)]]

\* ----------------------------------------------------------------- state
VARIABLES
    ngos,            \* the caller's list of NGO
    crisis_areas,    \* the caller's list of CrisisArea
    distance_cache,  \* AidMatchingAlgorithm.distance_cache
    result,          \* what the last find_optimal_matches call returned
    previous,        \* what the call before it returned on the same snapshot
    edits,           \* changes of the snapshot so far
    donations,       \* the last create_donation_records call: argument and return
    uuids_drawn,     \* values uuid.uuid4() has handed out so far
    scores,          \* the last calculate_supply_match_score call
    heatmap,         \* the last generate_heatmap_data call
    markers,         \* the last generate_crisis_markers call
    active_connections,  \* api.active_connections
    handlers,        \* where the websocket_endpoint handler of each connection is
    notify,          \* the notify_clients call under way or just ended
    limiter,         \* the RateLimiter instance
    clock,           \* what datetime.now().timestamp() returns
    calls            \* the is_allowed calls so far and what they returned

donation_vars == <<donations, uuids_drawn>>

scorer_vars == <<scores>>

heatmap_vars == <<heatmap, markers>>

websocket_vars == <<active_connections, handlers, notify>>

limiter_vars == <<limiter, clock, calls>>

vars == <<ngos, crisis_areas, distance_cache, result, previous, edits,
          donations, uuids_drawn, scores, heatmap, markers,
          active_connections, handlers, notify, limiter, clock, calls>>

NoCall == [status |-> "none", matches |-> <<>>, log |-> <<>>]

NoDonations == [status |-> "none", matches |-> <<>>, records |-> <<>>]

NoScores == [status |-> "none"]

NoHeatmap == [status |-> "none"]

NoMarkers == [status |-> "none"]

\* nothing has been asked of the scorer or of the heatmap generator
ScorerIdle == scores = NoScores

HeatmapIdle == heatmap = NoHeatmap /\ markers = NoMarkers

\* no websocket has been opened
WebsocketIdle ==
    /\ active_connections = <<>>
    /\ handlers = [c \in Connections |-> "new"]
    /\ notify = NoNotify

\* a rate limiter nobody has called
LimiterIdle ==
    /\ limiter = RateLimiter(1, 1)
    /\ clock = 0
    /\ calls = <<>>

EmptyCache == [k \in {} |-> 0]

\* The snapshots the engine is first run on.  n1 reaches a1 only and has one
\* lot of food or nothing, n2 reaches both areas; a2 is the more urgent area
\* unless a1 is as urgent.
Init ==
    /\ \E b \in BOOLEAN : \E stock \in {Dict1("food", <<1>>), EmptyDict} :
         ngos = <<[id |-> NgoIds[1], is_busy |-> FALSE, location |-> 0,
                   reach_radius_km |-> 1, inventory |-> stock,
                   credibility_score |-> 10, specializations |-> {}],
                  [id |-> NgoIds[2], is_busy |-> b, location |-> 1,
                   reach_radius_km |-> MaxPos, inventory |-> Dict2(<<1, 1>>, <<MaxQty>>),
                   credibility_score |-> 10, specializations |-> {}]>>
    /\ \E u \in {1, 2, 5} :
         LET a1 == [id |-> AreaIds[1], location |-> 0,
                    current_needs |-> Dict1("food", MaxQty),
                    urgency_levels |-> Dict1("food", u),
                    reachability |-> [ordinal |-> 0, numeric |-> TRUE]]
             a2 == [id |-> AreaIds[2], location |-> MaxPos,
                    current_needs |-> Dict2(1, 1), urgency_levels |-> Dict2(2, 5),
                    reachability |-> [ordinal |-> 1, numeric |-> TRUE]]
         IN  crisis_areas \in {<<a1, a2>>, <<a2, a1>>}
    /\ distance_cache = EmptyCache
    /\ result = NoCall
    /\ previous = NoCall
    /\ edits = 0
    /\ donations = NoDonations
    /\ uuids_drawn = 0
    /\ ScorerIdle
    /\ HeatmapIdle
    /\ WebsocketIdle
    /\ LimiterIdle

\* ---------------------------------------------------------------- actions
\* algorithm.find_optimal_matches(ngos, crisis_areas) on the engine instance
FindOptimalMatches ==
    \E r \in {find_optimal_matches(distance_cache, ngos, crisis_areas)} :
    /\ result' = [status |-> r.status, matches |-> r.matches, log |-> r.log]
    /\ previous' = result
    /\ distance_cache' = r.cache
    /\ ngos' = r.ngos
    /\ crisis_areas' = r.crisis_areas
    /\ UNCHANGED <<edits, donation_vars, scorer_vars, heatmap_vars,
                   websocket_vars, limiter_vars>>

\* algorithm.create_donation_records(matches) on the matches just returned
CreateDonationRecords ==
    /\ result.status = "returned"
    /\ uuids_drawn + Len(result.matches) <= MaxUuids
    /\ donations' = [status |-> "returned",
                     matches |-> result.matches,
                     records |-> create_donation_records(result.matches, uuids_drawn)]
    /\ uuids_drawn' = uuids_drawn + Len(result.matches)
    /\ UNCHANGED <<ngos, crisis_areas, distance_cache, result, previous, edits,
                   scorer_vars, heatmap_vars,
                   websocket_vars, limiter_vars>>

\* the records that differ from ngo in one field other than its location
NgoChanges(ngo) ==
    ({[ngo EXCEPT !.is_busy = b] : b \in BOOLEAN}
     \cup {[ngo EXCEPT !.reach_radius_km = r] : r \in Radii}
     \cup {[ngo EXCEPT !.inventory = i] : i \in Inventories}
     \cup {[ngo EXCEPT !.credibility_score = c] : c \in Credibilities}
     \cup {[ngo EXCEPT !.specializations = s] : s \in SpecializationSets})
    \ {ngo}

AreaChanges(area) ==
    ({[area EXCEPT !.current_needs = n] : n \in NeedsChoices}
     \cup {[area EXCEPT !.urgency_levels = u] : u \in UrgencyChoices}
     \cup {[area EXCEPT !.reachability = l] : l \in ReachabilityLevel})
    \ {area}

\* The snapshot the engine is first run on: one field of one NGO is set to
\* another value.  (Once the cache holds distances only locations are changed:
\* the cache is read and written by calculate_distance alone, which reads
\* nothing of an entity but its id and its location.)
ChangeNgo ==
    /\ edits < MaxEdits
    /\ distance_cache = EmptyCache
    /\ \E i \in 1..Len(ngos) : \E new \in NgoChanges(ngos[i]) :
         ngos' = [ngos EXCEPT ![i] = new]
    /\ edits' = edits + 1
    /\ result' = NoCall
    /\ previous' = NoCall
    /\ UNCHANGED <<crisis_areas, distance_cache>>
    /\ UNCHANGED <<donation_vars, scorer_vars, heatmap_vars,
                   websocket_vars, limiter_vars>>

ChangeCrisisArea ==
    /\ edits < MaxEdits
    /\ distance_cache = EmptyCache
    /\ \E j \in 1..Len(crisis_areas) : \E new \in AreaChanges(crisis_areas[j]) :
         crisis_areas' = [crisis_areas EXCEPT ![j] = new]
    /\ edits' = edits + 1
    /\ result' = NoCall
    /\ previous' = NoCall
    /\ UNCHANGED <<ngos, distance_cache>>
    /\ UNCHANGED <<donation_vars, scorer_vars, heatmap_vars,
                   websocket_vars, limiter_vars>>

\* between two calls an NGO is at another location: the caller passes the
\* NGO of the same id with other coordinates
MoveNgo ==
    /\ edits < MaxEdits
    /\ \E i \in 1..Len(ngos) : \E p \in Positions \ {ngos[i].location} :
         ngos' = [ngos EXCEPT ![i].location = p]
    /\ edits' = edits + 1
    /\ result' = NoCall
    /\ previous' = NoCall
    /\ UNCHANGED <<crisis_areas, distance_cache>>
    /\ UNCHANGED <<donation_vars, scorer_vars, heatmap_vars,
                   websocket_vars, limiter_vars>>

\* the same for a crisis area
MoveCrisisArea ==
    /\ edits < MaxEdits
    /\ \E j \in 1..Len(crisis_areas) : \E p \in Positions \ {crisis_areas[j].location} :
         crisis_areas' = [crisis_areas EXCEPT ![j].location = p]
    /\ edits' = edits + 1
    /\ result' = NoCall
    /\ previous' = NoCall
    /\ UNCHANGED <<ngos, distance_cache>>
    /\ UNCHANGED <<donation_vars, scorer_vars, heatmap_vars,
                   websocket_vars, limiter_vars>>

\* algorithm.calculate_supply_match_score(ngo, crisis_area) on one NGO and
\* one crisis area of the snapshot
CalculateSupplyMatchScore ==
    /\ \E k \in 1..Len(ngos) : \E j \in 1..Len(crisis_areas) :
         scores' = [status |-> "returned",
                    ngo |-> ngos[k],
                    crisis_area |-> crisis_areas[j],
                    scores |-> calculate_supply_match_score(ngos[k], crisis_areas[j])]
    /\ UNCHANGED <<ngos, crisis_areas, distance_cache, result, previous, edits,
                   donation_vars, heatmap_vars,
                   websocket_vars, limiter_vars>>

Next ==
    \/ FindOptimalMatches
    \/ CreateDonationRecords
    \/ ChangeNgo
    \/ ChangeCrisisArea
    \/ MoveNgo
    \/ MoveCrisisArea

Spec == Init /\ [][Next]_vars

\* ------------------------------------------------- the scorer on its own
\* the engine has not been called
EngineIdle ==
    /\ distance_cache = EmptyCache
    /\ result = NoCall
    /\ previous = NoCall
    /\ edits = 0
    /\ donations = NoDonations
    /\ uuids_drawn = 0

\* one NGO and one crisis area, over every inventory, set of specializations,
\* current_needs and urgency_levels of the input values
ScorerInit ==
    /\ \E i \in Inventories : \E sp \in SpecializationSets :
         ngos = <<[id |-> NgoIds[1], is_busy |-> FALSE, location |-> 0,
                   reach_radius_km |-> 1, inventory |-> i,
                   credibility_score |-> 10, specializations |-> sp]>>
    /\ \E n \in NeedsChoices : \E u \in UrgencyChoices :
         crisis_areas = <<[id |-> AreaIds[1], location |-> 0,
                           current_needs |-> n, urgency_levels |-> u,
                           reachability |-> [ordinal |-> 0, numeric |-> TRUE]]>>
    /\ EngineIdle
    /\ ScorerIdle
    /\ HeatmapIdle
    /\ WebsocketIdle
    /\ LimiterIdle

ScorerNext == CalculateSupplyMatchScore

ScorerSpec == ScorerInit /\ [][ScorerNext]_vars

\* --------------------------------------------------- the heatmap generator
\* The crisis areas the generator is given: two areas whose neighbourhoods
\* overlap, in either order, one of them alone, or none.  The first has half
\* of what it needs, the second all of it.
HeatmapInit ==
    /\ ngos = <<>>
    /\ LET h1 == [id |-> AreaIds[1], location |-> 0,
                  current_needs |-> Dict1("food", MaxQty),
                  urgency_levels |-> Dict1("food", 2),
                  current_inventory |-> Dict1("food", <<1>>),
                  reachability |-> [ordinal |-> 0, numeric |-> FALSE]]
           h2 == [id |-> AreaIds[2], location |-> 1,
                  current_needs |-> Dict2(1, 1), urgency_levels |-> Dict2(2, 5),
                  current_inventory |-> Dict2(<<1>>, <<1>>),
                  reachability |-> [ordinal |-> 1, numeric |-> FALSE]]
       IN  crisis_areas \in {<<h1, h2>>, <<h2, h1>>, <<h1>>, <<>>}
    /\ EngineIdle
    /\ ScorerIdle
    /\ HeatmapIdle
    /\ WebsocketIdle
    /\ LimiterIdle

\* heatmap_generator.generate_heatmap_data(crisis_areas, bounds, category),
\* asked once of a list of crisis areas (the generator keeps nothing between
\* calls)
GenerateHeatmapData ==
    /\ heatmap = NoHeatmap
    /\ \E sw \in BoxCorners : \E ne \in BoxCorners : \E category \in CategoryArguments :
       \E r \in {generate_heatmap_data(crisis_areas, sw, ne, category)} :
         heatmap' = [status |-> "returned", sw |-> sw, ne |-> ne, category |-> category,
                     grid |-> r.grid, points |-> r.points,
                     lat_vals |-> r.lat_vals, lon_vals |-> r.lon_vals]
    /\ UNCHANGED <<ngos, crisis_areas, distance_cache, result, previous, edits,
                   donation_vars, scorer_vars, markers,
                   websocket_vars, limiter_vars>>

\* heatmap_generator.generate_crisis_markers(crisis_areas)
GenerateCrisisMarkers ==
    /\ markers = NoMarkers
    /\ markers' = [status |-> "returned", markers |-> generate_crisis_markers(crisis_areas)]
    /\ UNCHANGED <<ngos, crisis_areas, distance_cache, result, previous, edits,
                   donation_vars, scorer_vars, heatmap,
                   websocket_vars, limiter_vars>>

\* the records that differ from a crisis area in one field the generator reads
HeatAreaChanges(area) ==
    ({[area EXCEPT !.current_needs = n] : n \in NeedsChoices}
     \cup {[area EXCEPT !.urgency_levels = u] : u \in UrgencyChoices}
     \cup {[area EXCEPT !.current_inventory = i] : i \in AreaInventories}
     \cup {[area EXCEPT !.location = p] : p \in HeatPositions})
    \ {area}

\* the generator is given another list: one field of one crisis area differs
ChangeHeatArea ==
    /\ edits < MaxEdits
    /\ \E j \in 1..Len(crisis_areas) : \E new \in HeatAreaChanges(crisis_areas[j]) :
         crisis_areas' = [crisis_areas EXCEPT ![j] = new]
    /\ edits' = edits + 1
    /\ heatmap' = NoHeatmap
    /\ markers' = NoMarkers
    /\ UNCHANGED <<ngos, distance_cache, result, previous, donation_vars, scorer_vars,
                   websocket_vars, limiter_vars>>

HeatmapNext ==
    \/ GenerateHeatmapData
    \/ GenerateCrisisMarkers
    \/ ChangeHeatArea

HeatmapSpec == HeatmapInit /\ [][HeatmapNext]_vars


\* ------------------------------------------------ the websocket connections
\* websocket_endpoint up to its first receive_text: accept and append
WebsocketEndpoint(c) ==
    /\ handlers[c] = "new"
    /\ active_connections' = Append(active_connections, c)
    /\ handlers' = [handlers EXCEPT ![c] = "receiving"]
    /\ UNCHANGED notify
    /\ UNCHANGED <<ngos, crisis_areas, distance_cache, result, previous, edits,
                   donation_vars, scorer_vars, heatmap_vars, limiter_vars>>

\* receive_text raises (the client has gone): the except clause of
\* websocket_endpoint removes the connection, and the handler ends, with a
\* ValueError when the connection is not in the list
ReceiveRaises(c) ==
    /\ handlers[c] = "receiving"
    /\ \E r \in {remove(active_connections, c)} :
         /\ active_connections' = r.list
         /\ handlers' = [handlers EXCEPT ![c] = IF r.raised THEN "raised" ELSE "closed"]
    /\ UNCHANGED notify
    /\ UNCHANGED <<ngos, crisis_areas, distance_cache, result, previous, edits,
                   donation_vars, scorer_vars, heatmap_vars, limiter_vars>>

\* an update handler calls notify_clients; one call at a time
NotifyClients ==
    /\ notify.status \in {"none", "done", "raised"}
    /\ notify' = notify_clients(active_connections)
    /\ UNCHANGED <<active_connections, handlers>>
    /\ UNCHANGED <<ngos, crisis_areas, distance_cache, result, previous, edits,
                   donation_vars, scorer_vars, heatmap_vars, limiter_vars>>

\* the awaited send_json returns or raises
SendJsonDone ==
    /\ notify.status = "sending"
    /\ \E ok \in BOOLEAN : \E r \in {send_json_done(notify, active_connections, ok)} :
         /\ notify' = r.notify
         /\ active_connections' = r.list
    /\ UNCHANGED handlers
    /\ UNCHANGED <<ngos, crisis_areas, distance_cache, result, previous, edits,
                   donation_vars, scorer_vars, heatmap_vars, limiter_vars>>

WebsocketInit ==
    /\ ngos = <<>>
    /\ crisis_areas = <<>>
    /\ EngineIdle
    /\ ScorerIdle
    /\ HeatmapIdle
    /\ WebsocketIdle
    /\ LimiterIdle

WebsocketNext ==
    \/ \E c \in Connections : WebsocketEndpoint(c)
    \/ \E c \in Connections : ReceiveRaises(c)
    \/ NotifyClients
    \/ SendJsonDone

WebsocketSpec == WebsocketInit /\ [][WebsocketNext]_vars

\* -------------------------------------------------------- the rate limiter
\* one is_allowed call of a client, at the clock value of the moment
IsAllowed ==
    /\ Len(calls) < MaxCalls
    /\ \E client_id \in Clients : \E r \in {is_allowed(limiter, client_id, clock)} :
         /\ limiter' = [limiter EXCEPT !.requests = r.requests]
         /\ calls' = Append(calls, [client_id |-> client_id, now |-> clock,
                                    allowed |-> r.allowed, raised |-> r.raised])
    /\ UNCHANGED clock
    /\ UNCHANGED <<ngos, crisis_areas, distance_cache, result, previous, edits,
                   donation_vars, scorer_vars, heatmap_vars, websocket_vars>>

\* time passes
Tick ==
    /\ clock < MaxClock
    /\ clock' = clock + 1
    /\ UNCHANGED <<limiter, calls>>
    /\ UNCHANGED <<ngos, crisis_areas, distance_cache, result, previous, edits,
                   donation_vars, scorer_vars, heatmap_vars, websocket_vars>>

LimiterInit ==
    /\ ngos = <<>>
    /\ crisis_areas = <<>>
    /\ EngineIdle
    /\ ScorerIdle
    /\ HeatmapIdle
    /\ WebsocketIdle
    /\ \E max_requests \in 1..MaxRequests : \E window_seconds \in 1..MaxWindow :
         limiter = RateLimiter(max_requests, window_seconds)
    /\ clock = 0
    /\ calls = <<>>

LimiterNext ==
    \/ IsAllowed
    \/ Tick

LimiterSpec == LimiterInit /\ [][LimiterNext]_vars

\* ------------------------------------------------------------------ claims
Returned == result.status = "returned"

Matches == result.matches

MatchIndices == 1..Len(Matches)

\* total quantity of the Supply entries for category c of the matches m with P(m)
RECURSIVE QuantityOf(_, _)
QuantityOf(supplies, c) ==
    IF supplies = <<>> THEN 0
    ELSE (IF Head(supplies).category = c THEN Head(supplies).quantity ELSE 0)
         + QuantityOf(Tail(supplies), c)

RECURSIVE TotalToArea(_, _, _)
TotalToArea(ms, area_id, c) ==
    IF ms = <<>> THEN 0
    ELSE (IF Head(ms).crisis_area.id = area_id THEN QuantityOf(Head(ms).supplies, c) ELSE 0)
         + TotalToArea(Tail(ms), area_id, c)

RECURSIVE TotalFromNgo(_, _, _)
TotalFromNgo(ms, ngo_id, c) ==
    IF ms = <<>> THEN 0
    ELSE (IF Head(ms).ngo.id = ngo_id THEN QuantityOf(Head(ms).supplies, c) ELSE 0)
         + TotalFromNgo(Tail(ms), ngo_id, c)

\* the sum of the lot quantities of an NGO in a category
LotTotal(ngo, c) == IF c \in DOMAIN ngo.inventory THEN SumSeq(ngo.inventory[c]) ELSE 0

TrueDistance(ngo, area) == Abs(ngo.location - area.location)

\* C1 (exclusivity): in the sequence one find_optimal_matches call returns, no
\* NGO id appears in more than one MatchResult.
C1_Exclusivity ==
    \A i \in MatchIndices : \A j \in MatchIndices :
        i # j => Matches[i].ngo.id # Matches[j].ngo.id

\* two areas were matched, and the NGO matched first is within reach of the
\* area matched second
C1_Witness ==
    /\ Returned
    /\ Len(Matches) = 2
    /\ TrueDistance(Matches[1].ngo, Matches[2].crisis_area) <= Matches[1].ngo.reach_radius_km

\* C2 (need cap): for every crisis area and category, the quantities of all
\* Supply entries of one call that target the area in that category add up to
\* at most the area's current_needs[category]; so does every single entry.
C2_NeedCap ==
    \A i \in MatchIndices : \A c \in Categories :
        LET area == Matches[i].crisis_area IN
        /\ QuantityOf(Matches[i].supplies, c) > 0 => c \in DOMAIN area.current_needs
        /\ c \in DOMAIN area.current_needs =>
               /\ TotalToArea(Matches, area.id, c) <= area.current_needs[c]
               /\ \A k \in 1..Len(Matches[i].supplies) :
                      Matches[i].supplies[k].category = c =>
                          Matches[i].supplies[k].quantity <= area.current_needs[c]

\* a Supply entry was cut down to the need: the NGO holds more than is needed
C2_Witness ==
    /\ Returned
    /\ \E i \in MatchIndices : \E k \in 1..Len(Matches[i].supplies) :
         LET s == Matches[i].supplies[k] IN
         /\ s.quantity = Matches[i].crisis_area.current_needs[s.category]
         /\ LotTotal(Matches[i].ngo, s.category) > s.quantity

\* C3 (supply cap): for every NGO and category, the quantities of all Supply
\* entries of one call that come from the NGO in that category add up to at
\* most the sum of the NGO's lots in that category.
C3_SupplyCap ==
    \A i \in MatchIndices : \A c \in Categories :
        TotalFromNgo(Matches, Matches[i].ngo.id, c) <= LotTotal(Matches[i].ngo, c)

\* a Supply entry was cut down to the stock: the area needs more than the
\* NGO's lots hold together
C3_Witness ==
    /\ Returned
    /\ \E i \in MatchIndices : \E k \in 1..Len(Matches[i].supplies) :
         LET s == Matches[i].supplies[k] IN
         /\ s.quantity = LotTotal(Matches[i].ngo, s.category)
         /\ Matches[i].crisis_area.current_needs[s.category] > s.quantity

Log == result.log

LogIndices == 1..Len(Log)

NgoIndex(ngo_id) == CHOOSE k \in 1..Len(ngos) : ngos[k].id = ngo_id

AreaIndex(area_id) == CHOOSE k \in 1..Len(crisis_areas) : crisis_areas[k].id = area_id

LogIndex(area_id) == CHOOSE k \in LogIndices : Log[k].area_id = area_id

HasLevels(area) == DOMAIN area.urgency_levels # {}

\* the maximum urgency level of an area that has urgency levels
MaxLevel(area) ==
    CHOOSE m \in {area.urgency_levels[c] : c \in DOMAIN area.urgency_levels} :
        \A c \in DOMAIN area.urgency_levels : area.urgency_levels[c] <= m

\* area x is to be processed before area y
Before(x, y) ==
    \/ MaxLevel(x) > MaxLevel(y)
    \/ MaxLevel(x) = MaxLevel(y) /\ AreaIndex(x.id) < AreaIndex(y.id)

\* the overall score of section 4.3c for the distance between the two entities
TrueScore(ngo, area) ==
    overall_score(ngo, area, TrueDistance(ngo, area),
                  calculate_supply_match_score(ngo, area))

C5_BusyExcluded ==
    \A i \in MatchIndices :
        /\ ~Matches[i].ngo.is_busy
        /\ \A k \in 1..Len(ngos) : ngos[k].is_busy => Matches[i].ngo.id # ngos[k].id

\* matches were returned while a busy NGO of the input was within reach of a
\* crisis area, with stock the area needs
C5_Witness ==
    /\ Returned
    /\ Len(Matches) >= 1
    /\ \E k \in 1..Len(ngos) : \E j \in 1..Len(crisis_areas) :
         /\ ngos[k].is_busy
         /\ TrueDistance(ngos[k], crisis_areas[j]) <= ngos[k].reach_radius_km
         /\ \E c \in DOMAIN crisis_areas[j].current_needs :
              crisis_areas[j].current_needs[c] > 0 /\ LotTotal(ngos[k], c) > 0

\* C6 (area ordering): the crisis areas are processed by descending maximum
\* urgency level, areas of equal maximum urgency in input order, and the
\* MatchResults are returned in processing order.  (Areas without any urgency
\* level are left to C25.)
C6_AreaOrdering ==
    /\ Returned => /\ Len(Log) = Len(crisis_areas)
                   /\ \A j \in 1..Len(crisis_areas) :
                          \E p \in LogIndices : Log[p].area_id = crisis_areas[j].id
    /\ \A p \in LogIndices : \A j \in 1..Len(crisis_areas) :
          LET x == crisis_areas[AreaIndex(Log[p].area_id)]
              y == crisis_areas[j]
          IN  (/\ y.id # x.id
               /\ \A q \in 1..(p - 1) : Log[q].area_id # y.id
               /\ HasLevels(x) /\ HasLevels(y)) => Before(x, y)
    /\ \A i \in MatchIndices : \A j \in MatchIndices :
          i < j => LogIndex(Matches[i].crisis_area.id) < LogIndex(Matches[j].crisis_area.id)

\* two areas were matched and the one listed last came first
C6_Witness ==
    /\ Returned
    /\ Len(Matches) = 2
    /\ Matches[1].crisis_area.id = crisis_areas[2].id
    /\ Matches[2].crisis_area.id = crisis_areas[1].id

\* the candidate loop keeps the NGO for the area: not busy, within reach and
\* of positive overall score
Candidate(ngo, area) ==
    /\ ~ngo.is_busy
    /\ TrueDistance(ngo, area) <= ngo.reach_radius_km
    /\ area.reachability.numeric
    /\ RLess(RZero, TrueScore(ngo, area))

\* the NGO is eligible for the area: a candidate with a positive quantity to send
Eligible(ngo, area) ==
    /\ Candidate(ngo, area)
    /\ \E c \in DOMAIN area.current_needs :
         MinInt(area.current_needs[c], LotTotal(ngo, c)) > 0

C9_Idempotence ==
    previous # NoCall =>
        /\ result.status = previous.status
        /\ result.matches = previous.matches

\* the second of two calls in a row has returned matches
C9_Witness ==
    /\ previous # NoCall
    /\ Returned
    /\ Len(Matches) >= 1

\* C10 (no leak through the cache): calculate_distance returns the distance
\* between the locations of the two entities it is passed, whatever the
\* cache holds for their ids.
C10_DistanceOfArguments ==
    \A p \in LogIndices : \A k \in 1..Len(Log[p].probes) :
        Log[p].probes[k].distance =
            TrueDistance(ngos[NgoIndex(Log[p].probes[k].ngo_id)],
                         crisis_areas[AreaIndex(Log[p].area_id)])

\* C11 (never raises): on a snapshot of validated entities, whatever the
\* reachability level, the inventories and the missing current_needs /
\* urgency_levels / inventory entries, find_optimal_matches runs to completion
\* and returns a list.
C11_NeverRaises == result.status # "raised"

\* C12 (donation records): create_donation_records returns one Donation per
\* MatchResult it is given, in the same order, each with the NGO id, the
\* crisis-area id and the supply list of its match and the status "pending",
\* and no two of them with the same id.
C12_DonationRecords ==
    donations.status = "returned" =>
        LET ms == donations.matches
            ds == donations.records
        IN  /\ Len(ds) = Len(ms)
            /\ \A i \in 1..Len(ms) :
                  /\ ds[i].ngo_id = ms[i].ngo.id
                  /\ ds[i].crisis_area_id = ms[i].crisis_area.id
                  /\ ds[i].supplies = ms[i].supplies
                  /\ ds[i].status = "pending"
            /\ \A i \in 1..Len(ds) : \A j \in 1..Len(ds) : i # j => ds[i].id # ds[j].id

\* records were made of two matches, after records had been made before
C12_Witness ==
    /\ donations.status = "returned"
    /\ Len(donations.records) = 2
    /\ uuids_drawn > 2

\* C13 (inputs unchanged): a find_optimal_matches call leaves the caller's
\* list of NGOs and list of crisis areas as they were: the same elements in
\* the same order, every field of every element as before.  Of the engine and
\* its collaborators it changes the distance cache only.
C13_InputsUnchanged ==
    [][FindOptimalMatches =>
          /\ ngos' = ngos
          /\ crisis_areas' = crisis_areas
          /\ UNCHANGED <<donation_vars, scorer_vars, heatmap_vars>>]_vars

\* a call has matched both NGOs and has processed the crisis areas in another
\* order than the caller lists them
C13_Witness ==
    /\ Returned
    /\ Len(Matches) = 2
    /\ Len(Log) = 2
    /\ Log[1].area_id = crisis_areas[2].id
    /\ Len(ngos) = 2

\* the score section 4.2 gives category c for an NGO and a crisis area
ExpectedScore(ngo, area, c) ==
    IF area.current_needs[c] = 0 THEN RZero
    ELSE LET fulfillment == IF LotTotal(ngo, c) >= area.current_needs[c] THEN ROne
                            ELSE Rat(LotTotal(ngo, c), area.current_needs[c])
             urgency == IF c \in DOMAIN area.urgency_levels
                        THEN Rat(area.urgency_levels[c], 5) ELSE Rat(1, 5)
             bonus == IF c \in ngo.specializations THEN Rat(6, 5) ELSE ROne
         IN  RMul(fulfillment, RMul(urgency, bonus))

\* C14 (supply score): calculate_supply_match_score returns a score for
\* exactly the categories of area.current_needs: 0 when nothing is needed,
\* else min(1, available / needed) * (urgency_levels.get(category, 1) / 5)
\* * (1.2 if the NGO is specialized in the category, else 1.0), available
\* being the sum of the NGO's lots of the category (0 without any).
C14_SupplyScore ==
    scores.status = "returned" =>
        /\ DOMAIN scores.scores = DOMAIN scores.crisis_area.current_needs
        /\ \A c \in DOMAIN scores.scores :
              scores.scores[c] = ExpectedScore(scores.ngo, scores.crisis_area, c)

\* scored: a category the NGO is specialized in and covers in part, without
\* an urgency level, next to a category the NGO has no lot of
C14_Witness ==
    /\ scores.status = "returned"
    /\ \E c \in DOMAIN scores.scores :
         /\ c \in scores.ngo.specializations
         /\ c \notin DOMAIN scores.crisis_area.urgency_levels
         /\ 0 < LotTotal(scores.ngo, c)
         /\ LotTotal(scores.ngo, c) < scores.crisis_area.current_needs[c]
    /\ \E c \in DOMAIN scores.scores :
         /\ c \notin DOMAIN scores.ngo.inventory
         /\ scores.crisis_area.current_needs[c] > 0

HeatmapReturned == heatmap.status = "returned"

Points == heatmap.points

Grid == heatmap.grid

MarkersReturned == markers.status = "returned"

\* a rational lies in [0, 1]
InUnitInterval(x) == RLeq(RZero, x) /\ RLeq(x, ROne)

\* C15 (intensity range): every point generate_heatmap_data emits has its
\* intensity in [0, 1], for crisis areas with urgency levels in 1..5 and any
\* bounding box.
C15_IntensityRange ==
    HeatmapReturned => \A k \in 1..Len(Points) : InUnitInterval(Points[k].intensity)

\* C16 (satisfaction range): every satisfaction value the generator produces,
\* of an emitted point and of a marker, lies in [0, 1], for crisis areas with
\* non-negative needs and lots and urgency levels in 1..5, also when
\* urgency_levels and current_needs are not over the same categories.
C16_SatisfactionRange ==
    /\ HeatmapReturned => \A k \in 1..Len(Points) : InUnitInterval(Points[k].satisfaction)
    /\ MarkersReturned =>
          \A i \in 1..Len(markers.markers) : InUnitInterval(markers.markers[i].satisfaction)

\* the distance of a grid latitude and a crisis area, in km
DistanceTo(lat, area) ==
    LET d == RSub(lat, Rat(area.location, 1)) IN
    IF d[1] < 0 THEN <<-d[1], d[2]>> ELSE d

WithinRadius(lat, area) == RLeq(DistanceTo(lat, area), Rat(HEATMAP_RADIUS_KM, 1))

\* the maximum urgency of an area, 1 for an area without urgency levels
UrgencyOf(area) == IF HasLevels(area) THEN MaxLevel(area) ELSE 1

\* max urgency of the area * (1 - distance / radius_km)^2
Contribution(area, lat) ==
    LET w == RSub(ROne, RDiv(DistanceTo(lat, area), Rat(HEATMAP_RADIUS_KM, 1))) IN
    RMul(Rat(UrgencyOf(area), 1), RMul(w, w))

\* the largest contribution of the areas within the radius, 0 without any
MaxContribution(lat) ==
    LET cs == {Contribution(crisis_areas[j], lat) :
                  j \in {i \in 1..Len(crisis_areas) : WithinRadius(lat, crisis_areas[i])}}
    IN  IF cs = {} THEN RZero ELSE CHOOSE m \in cs : \A c \in cs : RLeq(c, m)

\* all the needs of the area are 0
NeedsNothing(area) == \A c \in DOMAIN area.current_needs : area.current_needs[c] = 0

\* C17 (sparsity): a crisis area whose current_needs are all 0 contributes no
\* positive intensity to any grid point: a positive intensity is the
\* contribution of an area that needs something; and when every area given
\* needs nothing, generate_heatmap_data emits no point.
C17_Sparsity ==
    HeatmapReturned =>
        /\ \A k \in 1..Len(Grid) :
              RLess(RZero, Grid[k].intensity) =>
                  \E j \in 1..Len(crisis_areas) :
                      /\ ~NeedsNothing(crisis_areas[j])
                      /\ WithinRadius(Grid[k].lat, crisis_areas[j])
                      /\ Contribution(crisis_areas[j], Grid[k].lat) = Grid[k].intensity
        /\ (\A j \in 1..Len(crisis_areas) : NeedsNothing(crisis_areas[j])) => Points = <<>>

\* the grid point is farther than radius_km from every crisis area
FarFromAll(lat) == \A j \in 1..Len(crisis_areas) : ~WithinRadius(lat, crisis_areas[j])

\* C18 (empty neighbourhood): at a grid point farther than radius_km from
\* every crisis area _calculate_intensity returns intensity 0 and
\* satisfaction 1.0, and generate_heatmap_data does not emit the point.
C18_EmptyNeighbourhood ==
    HeatmapReturned =>
        \A k \in 1..Len(Grid) :
            FarFromAll(Grid[k].lat) =>
                /\ Grid[k].intensity = RZero
                /\ Grid[k].satisfaction = ROne
                /\ \A q \in 1..Len(Points) : Points[q].lat # Grid[k].lat

\* of a grid over crisis areas, some points were emitted and another point is
\* farther than radius_km from every area
C18_Witness ==
    /\ HeatmapReturned
    /\ Len(crisis_areas) >= 1
    /\ Points # <<>>
    /\ \E k \in 1..Len(Grid) : FarFromAll(Grid[k].lat)

PositiveIntensity(value) == RLess(RZero, value.intensity)

\* C19 (maximum, not sum): the intensity of a grid point is the largest
\* contribution (max urgency of the area * quadratic distance weight) of the
\* areas within radius_km, so that a further area never raises it above the
\* larger of what it was and the further area's own contribution; and the
\* points emitted are the grid points of intensity > 0, no other.
C19_IntensityIsMax ==
    HeatmapReturned =>
        /\ \A k \in 1..Len(Grid) : Grid[k].intensity = MaxContribution(Grid[k].lat)
        /\ Points = SelectSeq(Grid, PositiveIntensity)

\* a grid point lies within the radius of two areas, both with a positive
\* contribution, and another grid point of the same grid has intensity 0
C19_Witness ==
    /\ HeatmapReturned
    /\ Len(crisis_areas) = 2
    /\ \E k \in 1..Len(Grid) :
         /\ WithinRadius(Grid[k].lat, crisis_areas[1])
         /\ WithinRadius(Grid[k].lat, crisis_areas[2])
         /\ RLess(RZero, Contribution(crisis_areas[1], Grid[k].lat))
         /\ RLess(RZero, Contribution(crisis_areas[2], Grid[k].lat))
    /\ \E k \in 1..Len(Grid) : Grid[k].intensity = RZero

\* C20 (markers): generate_crisis_markers returns one marker per crisis area
\* it is given, in the order given, each with the id of its area, whatever
\* bounding box or grid a heatmap was asked for.
C20_OneMarkerPerArea ==
    MarkersReturned =>
        /\ Len(markers.markers) = Len(crisis_areas)
        /\ \A i \in 1..Len(crisis_areas) : markers.markers[i].id = crisis_areas[i].id

\* markers of two areas were returned next to a heatmap of a box that does
\* not hold the first area
C20_Witness ==
    /\ MarkersReturned
    /\ Len(markers.markers) = 2
    /\ HeatmapReturned
    /\ heatmap.sw > crisis_areas[1].location
    /\ heatmap.ne > crisis_areas[1].location

\* C21 (grid floor): for any bounding box, a box of no area (sw = ne)
\* included, generate_heatmap_data returns, having evaluated at least
\* min_grid_steps grid values on each axis, evenly spaced from sw to ne, both
\* ends included.
C21_GridFloor ==
    HeatmapReturned =>
        LET lats == heatmap.lat_vals
            lons == heatmap.lon_vals
            n == Len(lats)
        IN  /\ n >= HEATMAP_MIN_GRID_STEPS
            /\ Len(lons) >= HEATMAP_MIN_GRID_STEPS
            /\ lats[1] = Rat(heatmap.sw, 1)
            /\ lats[n] = Rat(heatmap.ne, 1)
            /\ \A i \in 1..(n - 1) :
                  RSub(lats[i + 1], lats[i]) = Rat(heatmap.ne - heatmap.sw, n - 1)
            /\ \A j \in 1..Len(lons) : lons[j] = RZero
            /\ Len(Grid) = n * Len(lons)
            /\ \A k \in 1..Len(Grid) :
                  Grid[k].lat = lats[((k - 1) \div Len(lons)) + 1]

\* the heatmap of a box of no area at the place of a crisis area: a grid of
\* min_grid_steps by min_grid_steps points, all emitted
C21_Witness ==
    /\ HeatmapReturned
    /\ heatmap.sw = heatmap.ne
    /\ Len(Grid) = HEATMAP_MIN_GRID_STEPS * HEATMAP_MIN_GRID_STEPS
    /\ Len(Points) = Len(Grid)

C23_SupplyList ==
    \A i \in MatchIndices :
        LET m == Matches[i] IN
        /\ m.supplies # <<>>
        /\ \A k \in 1..Len(m.supplies) : \A l \in 1..Len(m.supplies) :
              k # l => m.supplies[k].category # m.supplies[l].category
        /\ \A k \in 1..Len(m.supplies) :
              LET c == m.supplies[k].category IN
              /\ c \in DOMAIN m.crisis_area.current_needs
              /\ RLess(RZero, ExpectedScore(m.ngo, m.crisis_area, c))
              /\ m.supplies[k].quantity > 0
              /\ m.supplies[k].quantity =
                     MinInt(m.crisis_area.current_needs[c], LotTotal(m.ngo, c))

\* a match of one entry to an area that needs two categories, the NGO having
\* no lot of the other one
C23_Witness ==
    /\ Returned
    /\ \E i \in MatchIndices :
         /\ Matches[i].supplies # <<>>
         /\ \E c \in DOMAIN Matches[i].crisis_area.current_needs :
              /\ Matches[i].crisis_area.current_needs[c] > 0
              /\ LotTotal(Matches[i].ngo, c) = 0

\* area x is to be processed before area y when an area without urgency
\* levels counts as an area of maximum urgency 1
BeforeWithDefault(x, y) ==
    \/ UrgencyOf(x) > UrgencyOf(y)
    \/ UrgencyOf(x) = UrgencyOf(y) /\ AreaIndex(x.id) < AreaIndex(y.id)

\* C25 (default urgency in the ordering): find_optimal_matches ranks a crisis
\* area without urgency entries as an area of maximum urgency 1: it is
\* processed after the areas of higher maximum urgency, and among the areas of
\* maximum urgency 1 in input order.
C25_DefaultUrgencyOrdering ==
    \A p \in LogIndices : \A j \in 1..Len(crisis_areas) :
        LET x == crisis_areas[AreaIndex(Log[p].area_id)]
            y == crisis_areas[j]
        IN  (/\ y.id # x.id
             /\ \A q \in 1..(p - 1) : Log[q].area_id # y.id) => BeforeWithDefault(x, y)

\* the candidates the engine kept for a crisis area
CandidatesOf(entry) == {entry.candidates[k] : k \in 1..Len(entry.candidates)}

\* the one of the highest score, the first in the input among those
TopCandidate(entry) ==
    CHOOSE c \in CandidatesOf(entry) :
        \A d \in CandidatesOf(entry) :
            \/ RLess(d.overall_score, c.overall_score)
            \/ /\ d.overall_score = c.overall_score
               /\ NgoIndex(c.ngo_id) <= NgoIndex(d.ngo_id)

\* the NGO has a positive quantity of something the area needs
CanSend(ngo, area) ==
    \E c \in DOMAIN area.current_needs : MinInt(area.current_needs[c], LotTotal(ngo, c)) > 0

\* the NGOs in the pool when the area of the entry was processed
PoolAt(entry) == [k \in 1..Len(entry.probes) |-> entry.probes[k].ngo_id]

\* C27 (only the top candidate is tried): when the candidate of the highest
\* score for a crisis area has nothing to send, the area gets no MatchResult
\* and no NGO leaves the pool, also when a candidate of a lower score could
\* send a positive quantity.
C27_OnlyTopCandidate ==
    Returned =>
        \A p \in LogIndices :
            (/\ Log[p].candidates # <<>>
             /\ ~CanSend(ngos[NgoIndex(TopCandidate(Log[p]).ngo_id)],
                         crisis_areas[AreaIndex(Log[p].area_id)]))
            => /\ \A i \in MatchIndices : Matches[i].crisis_area.id # Log[p].area_id
               /\ p < Len(Log) => PoolAt(Log[p + 1]) = PoolAt(Log[p])

\* the top candidate of an area had nothing to send while another candidate
\* of the area had
C27_Witness ==
    /\ Returned
    /\ \E p \in LogIndices :
         /\ Log[p].candidates # <<>>
         /\ ~CanSend(ngos[NgoIndex(TopCandidate(Log[p]).ngo_id)],
                     crisis_areas[AreaIndex(Log[p].area_id)])
         /\ \E d \in CandidatesOf(Log[p]) :
              CanSend(ngos[NgoIndex(d.ngo_id)], crisis_areas[AreaIndex(Log[p].area_id)])

\* min(1, available inventory / needed) of one category, 1 when nothing of it
\* is needed
LotTotalOf(inventory, c) == SumSeq(Get(inventory, c, <<>>))

SatisfactionOf(area, c) ==
    IF Get(area.current_needs, c, 0) = 0 THEN ROne
    ELSE RMin(ROne, Rat(LotTotalOf(area.current_inventory, c), area.current_needs[c]))

RECURSIVE UrgencySum(_, _)
UrgencySum(area, cats) ==
    IF cats = {} THEN 0
    ELSE LET c == CHOOSE c \in cats : TRUE IN
         Get(area.urgency_levels, c, 1) + UrgencySum(area, cats \ {c})

RECURSIVE WeightedSum(_, _)
WeightedSum(area, cats) ==
    IF cats = {} THEN RZero
    ELSE LET c == CHOOSE c \in cats : TRUE IN
         RAdd(RMul(SatisfactionOf(area, c), Rat(Get(area.urgency_levels, c, 1), 1)),
              WeightedSum(area, cats \ {c}))

\* sum(sat_c x u_c) / sum(u_c) over the categories of current_needs
WeightedAverage(area) ==
    LET total == UrgencySum(area, DOMAIN area.current_needs) IN
    IF total = 0 THEN ROne
    ELSE RDiv(WeightedSum(area, DOMAIN area.current_needs), Rat(total, 1))

\* C24 (overall satisfaction): with no category requested the satisfaction of
\* an area is sum(sat_c x u_c) / sum(u_c) over the categories of current_needs,
\* with u_c = urgency_levels.get(c, 1) and sat_c = 1 when nothing is needed,
\* else min(1, available inventory / needed); 1 when the total urgency is zero.
C24_WeightedAverage ==
    MarkersReturned =>
        \A i \in 1..Len(markers.markers) :
            markers.markers[i].satisfaction = WeightedAverage(crisis_areas[i])

\* the connection is in active_connections
Connected(c) == \E i \in 1..Len(active_connections) : active_connections[i] = c

\* C26 (every client is notified): after one notify_clients call every
\* connection that was in active_connections at the start of the call and
\* whose send did not fail has been sent the message, also when the send to
\* another connection fails during the call and that connection is removed.
\* Stated of the connections that are still open when the call ends.
C26_AllNotified ==
    notify.status = "done" =>
        \A i \in 1..Len(notify.at_start) :
            LET c == notify.at_start[i] IN
            (c \notin notify.failed /\ Connected(c)) => c \in notify.sent

\* C29 (cleanup of a handler): when the receive loop of a connection ends, the
\* connection is no longer in active_connections and the cleanup of the
\* handler does not raise, also when notify_clients has removed the
\* connection after a failed send.
C29_CleanupCompletes ==
    \A c \in Connections :
        /\ handlers[c] # "raised"
        /\ handlers[c] = "closed" => ~Connected(c)

\* the calls of a client that returned True at a clock value in lo..hi
GrantedIn(client_id, lo, hi) ==
    {i \in 1..Len(calls) : /\ calls[i].client_id = client_id
                           /\ calls[i].allowed
                           /\ lo <= calls[i].now
                           /\ calls[i].now <= hi}

\* C28 as stated (rate limit over any window): for every client, the number of
\* its is_allowed calls that returned True within any time window of length
\* window_seconds, the window [s, s + window_seconds] with both ends, is at
\* most max_requests.
C28_AnyWindow ==
    \A client_id \in Clients : \A s \in 0..MaxClock :
        Cardinality(GrantedIn(client_id, s, s + limiter.window_seconds))
            <= limiter.max_requests

\* C28 amended (rate limit over a half-open window): for every client, the
\* number of its is_allowed calls that returned True at clock values in
\* [s, s + window_seconds), that is less than window_seconds apart, is at most
\* max_requests; no call raises.
C28_HalfOpenWindow ==
    /\ \A client_id \in Clients : \A s \in 0..MaxClock :
          Cardinality(GrantedIn(client_id, s, s + limiter.window_seconds - 1))
              <= limiter.max_requests
    /\ \A i \in 1..Len(calls) : ~calls[i].raised

\* a client was let through, then refused, then let through again, and the
\* other client called in between
C28_Witness ==
    \E i \in 1..Len(calls) : \E j \in 1..Len(calls) : \E k \in 1..Len(calls) :
    \E o \in 1..Len(calls) :
        /\ i < j /\ j < k /\ i < o /\ o < k
        /\ calls[i].client_id = calls[j].client_id
        /\ calls[j].client_id = calls[k].client_id
        /\ calls[o].client_id # calls[i].client_id
        /\ calls[i].allowed /\ ~calls[j].allowed /\ calls[k].allowed

====
